---- MODULE Spec2Model ----
(***************************************************************************)
(* A model of zeroseven/deployer-action (src/unnamed/part_000, the         *)
(* TypeScript source of lib/index.js): the run() lifecycle, that is SSH    *)
(* setup, verification of the Deployer binary, the timeout racing          *)
(* deployment and the cleanup of the SSH artifacts.                        *)
(*                                                                         *)
(* Strings that the code inspects or concatenates are modelled as          *)
(* sequences of one-character strings, so that parsing, trimming and       *)
(* concatenation are computed and not assumed.                             *)
(***************************************************************************)
EXTENDS Integers, Sequences, FiniteSets, TLC

\* ------------------------------------------------------------------ bounds

\* Chunks of output the deployment subprocess may emit in one run.
MaxChunks == 2
\* SSH multiplexing control sockets the deployment may leave in the tmp dir.
MaxSockets == 1
\* Longest enumerated options string of the argument-vector specification.
MaxOptLen == 3
\* The most segments of a generated path.
MaxPathSegs == 3
\* The longest generated string handed to parseShellArgs on its own.
MaxParseLen == 4
\* The most control sockets in the tmp directory when cleanupSSH is exercised
\* on its own.
MaxCleanupSockets == 2
\* The most calls of cleanupSSH in a row when it is exercised on its own.
MaxCleanupCalls == 2

\* --------------------------------------------------------- string helpers

Empty == <<>>
NL == "\n"
DQ == "\""
SQ == "'"
SP == " "

IsSpace(c) == c \in {" ", "\t", "\n"}

RECURSIVE TrimStart(_)
TrimStart(s) ==
  IF s # Empty /\ IsSpace(Head(s)) THEN TrimStart(Tail(s)) ELSE s

RECURSIVE TrimEnd(_)
TrimEnd(s) ==
  IF s # Empty /\ IsSpace(s[Len(s)]) THEN TrimEnd(SubSeq(s, 1, Len(s) - 1)) ELSE s

\* String.prototype.trim, as core.getInput applies it to every input.
Trim(s) == TrimEnd(TrimStart(s))

\* s.startsWith(p)
StartsWith(s, p) == Len(p) <= Len(s) /\ SubSeq(s, 1, Len(p)) = p

Digits == {"0", "1", "2", "3", "4", "5", "6", "7", "8", "9"}

DigitVal(c) ==
  CASE c = "0" -> 0 [] c = "1" -> 1 [] c = "2" -> 2 [] c = "3" -> 3
    [] c = "4" -> 4 [] c = "5" -> 5 [] c = "6" -> 6 [] c = "7" -> 7
    [] c = "8" -> 8 [] c = "9" -> 9

\* A JavaScript number | undefined, as far as the code tells them apart.
Undefined == [t |-> "undefined", v |-> 0]
NaN == [t |-> "NaN", v |-> 0]
Num(n) == [t |-> "number", v |-> n]

\* JavaScript truthiness of a number | undefined.
Truthy(x) == x.t = "number" /\ x.v # 0

RECURSIVE ParseDigits(_, _, _)
\* The value of the longest prefix of digits of s, NaN when there is none.
ParseDigits(s, acc, seen) ==
  IF s # Empty /\ Head(s) \in Digits
  THEN ParseDigits(Tail(s), acc * 10 + DigitVal(Head(s)), TRUE)
  ELSE IF seen THEN Num(acc) ELSE NaN

\* parseInt(s, 10): leading white space, an optional sign, then digits up to
\* the first character that is no digit.
ParseInt(s) ==
  LET t == TrimStart(s)
      neg == t # Empty /\ Head(t) = "-"
      signed == t # Empty /\ Head(t) \in {"-", "+"}
      r == ParseDigits(IF signed THEN Tail(t) ELSE t, 0, FALSE)
  IN IF r.t = "number" /\ neg THEN Num(0 - r.v) ELSE r

\* ------------------------------------------------------- parseShellArgs

RECURSIVE parseShellArgsFrom(_, _, _, _, _, _)
\* The for loop of parseShellArgs from index i on, and the push after it.
parseShellArgsFrom(input, i, args, current, inQuote, quoteChar) ==
  IF i > Len(input)
  THEN IF current # Empty THEN Append(args, current) ELSE args
  ELSE LET char == input[i] IN
       IF (char = DQ \/ char = SQ) /\ ~inQuote
       THEN parseShellArgsFrom(input, i + 1, args, current, TRUE, char)
       ELSE IF char = quoteChar /\ inQuote
       THEN parseShellArgsFrom(input, i + 1, args, current, FALSE, "")
       ELSE IF char = SP /\ ~inQuote
       THEN IF current # Empty
            THEN parseShellArgsFrom(input, i + 1, Append(args, current), Empty,
                                    inQuote, quoteChar)
            ELSE parseShellArgsFrom(input, i + 1, args, current, inQuote, quoteChar)
       ELSE parseShellArgsFrom(input, i + 1, args, Append(current, char),
                               inQuote, quoteChar)

RECURSIVE parseShellArgsFromKeepEmpty(_, _, _, _, _, _)
\* The loop with both `if (current)` tests left out.
parseShellArgsFromKeepEmpty(input, i, args, current, inQuote, quoteChar) ==
  IF i > Len(input)
  THEN Append(args, current)
  ELSE LET char == input[i] IN
       IF (char = DQ \/ char = SQ) /\ ~inQuote
       THEN parseShellArgsFromKeepEmpty(input, i + 1, args, current, TRUE, char)
       ELSE IF char = quoteChar /\ inQuote
       THEN parseShellArgsFromKeepEmpty(input, i + 1, args, current, FALSE, "")
       ELSE IF char = SP /\ ~inQuote
       THEN parseShellArgsFromKeepEmpty(input, i + 1, Append(args, current), Empty,
                                        inQuote, quoteChar)
       ELSE parseShellArgsFromKeepEmpty(input, i + 1, args, Append(current, char),
                                        inQuote, quoteChar)

parseShellArgsKeepEmpty(input) ==
  parseShellArgsFromKeepEmpty(input, 1, <<>>, Empty, FALSE, "")

RECURSIVE parseShellArgsFromAnyQuoteCloses(_, _, _, _, _, _)
\* The loop with a quote of either type closing an active quote.
parseShellArgsFromAnyQuoteCloses(input, i, args, current, inQuote, quoteChar) ==
  IF i > Len(input)
  THEN IF current # Empty THEN Append(args, current) ELSE args
  ELSE LET char == input[i] IN
       IF (char = DQ \/ char = SQ) /\ ~inQuote
       THEN parseShellArgsFromAnyQuoteCloses(input, i + 1, args, current, TRUE, char)
       ELSE IF (char = DQ \/ char = SQ) /\ inQuote
       THEN parseShellArgsFromAnyQuoteCloses(input, i + 1, args, current, FALSE, "")
       ELSE IF char = SP /\ ~inQuote
       THEN IF current # Empty
            THEN parseShellArgsFromAnyQuoteCloses(input, i + 1, Append(args, current),
                                                  Empty, inQuote, quoteChar)
            ELSE parseShellArgsFromAnyQuoteCloses(input, i + 1, args, current,
                                                  inQuote, quoteChar)
       ELSE parseShellArgsFromAnyQuoteCloses(input, i + 1, args,
                                             Append(current, char), inQuote, quoteChar)

parseShellArgsAnyQuoteCloses(input) ==
  parseShellArgsFromAnyQuoteCloses(input, 1, <<>>, Empty, FALSE, "")

RECURSIVE parseShellArgsFromDropsOpenQuote(_, _, _, _, _, _)
\* The loop with the last token dropped when its quote was never closed.
parseShellArgsFromDropsOpenQuote(input, i, args, current, inQuote, quoteChar) ==
  IF i > Len(input)
  THEN IF current # Empty /\ ~inQuote THEN Append(args, current) ELSE args
  ELSE LET char == input[i] IN
       IF (char = DQ \/ char = SQ) /\ ~inQuote
       THEN parseShellArgsFromDropsOpenQuote(input, i + 1, args, current, TRUE, char)
       ELSE IF char = quoteChar /\ inQuote
       THEN parseShellArgsFromDropsOpenQuote(input, i + 1, args, current, FALSE, "")
       ELSE IF char = SP /\ ~inQuote
       THEN IF current # Empty
            THEN parseShellArgsFromDropsOpenQuote(input, i + 1, Append(args, current),
                                                  Empty, inQuote, quoteChar)
            ELSE parseShellArgsFromDropsOpenQuote(input, i + 1, args, current,
                                                  inQuote, quoteChar)
       ELSE parseShellArgsFromDropsOpenQuote(input, i + 1, args,
                                             Append(current, char), inQuote, quoteChar)

parseShellArgsDropsOpenQuote(input) ==
  parseShellArgsFromDropsOpenQuote(input, 1, <<>>, Empty, FALSE, "")

\* The loop started at the second character.
parseShellArgsSkipFirst(input) ==
  parseShellArgsFrom(input, 2, <<>>, Empty, FALSE, "")

parseShellArgs(input) == parseShellArgsFrom(input, 1, <<>>, Empty, FALSE, "")

\* ------------------------------------------- runDeployment: the arguments

DeployWord == <<"d", "e", "p", "l", "o", "y">>
RevisionPrefix == <<"-", "-", "r", "e", "v", "i", "s", "i", "o", "n", "=">>

\* const args = ['deploy', environment, `--revision=${revision}`]
BaseArgs(environment, revision) ==
  <<DeployWord, environment, RevisionPrefix \o revision>>

\* Mutant: the flag is put in front of the vector (unshift for push).
PushVerbosityInFront(args, verbosity) ==
  IF verbosity # Empty THEN <<<<"-">> \o verbosity>> \o args ELSE args

\* Mutant: the input is pushed without its dash.
PushVerbosityNoDash(args, verbosity) ==
  IF verbosity # Empty THEN Append(args, verbosity) ELSE args

\* if (verbosity) args.push(`-${verbosity}`)
PushVerbosity(args, verbosity) ==
  IF verbosity # Empty THEN Append(args, <<"-">> \o verbosity) ELSE args

\* if (options) args.push(...parseShellArgs(options))
PushOptions(args, options) ==
  IF options # Empty THEN args \o parseShellArgs(options) ELSE args

\* The argument vector runDeployment hands to exec.exec.
DeployArgs(environment, revision, verbosity, options) ==
  PushOptions(PushVerbosity(BaseArgs(environment, revision), verbosity), options)

\* ------------------------------------------------- paths (Node's path module)

\* The segments of a path string, split on "/".
RECURSIVE SplitPathFrom(_, _, _)
SplitPathFrom(s, cur, acc) ==
  IF s = Empty THEN Append(acc, cur)
  ELSE IF Head(s) = "/" THEN SplitPathFrom(Tail(s), Empty, Append(acc, cur))
  ELSE SplitPathFrom(Tail(s), Append(cur, Head(s)), acc)

SplitPath(s) == SplitPathFrom(s, Empty, <<>>)

DotSeg == <<".">>
DotDotSeg == <<".", ".">>

\* Normalisation of an absolute path's segments: "" and "." are dropped and
\* ".." removes the segment before it (and nothing at the root).
RECURSIVE NormalizeFrom(_, _)
NormalizeFrom(segs, acc) ==
  IF segs = <<>> THEN acc
  ELSE LET seg == Head(segs) IN
       IF seg = Empty \/ seg = DotSeg THEN NormalizeFrom(Tail(segs), acc)
       ELSE IF seg = DotDotSeg
       THEN NormalizeFrom(Tail(segs),
                          IF acc = <<>> THEN acc ELSE SubSeq(acc, 1, Len(acc) - 1))
       ELSE NormalizeFrom(Tail(segs), Append(acc, seg))

IsAbsolute(s) == s # Empty /\ Head(s) = "/"

\* process.cwd(), as segments: the directory the action runs in.
Cwd == <<<<"w">>>>

\* The path string of normalised absolute segments.
RECURSIVE PathString(_)
PathString(segs) ==
  IF segs = <<>> THEN <<"/">>
  ELSE IF Len(segs) = 1 THEN <<"/">> \o segs[1]
  ELSE PathString(SubSeq(segs, 1, Len(segs) - 1)) \o <<"/">> \o segs[Len(segs)]

\* path.resolve(a)
PathResolve1(a) ==
  PathString(NormalizeFrom(IF IsAbsolute(a) THEN SplitPath(a)
                           ELSE Cwd \o SplitPath(a), <<>>))

\* path.resolve(a, b): the right-most absolute argument wins.
PathResolve2(a, b) ==
  PathString(NormalizeFrom(
    IF IsAbsolute(b) THEN SplitPath(b)
    ELSE IF IsAbsolute(a) THEN SplitPath(a) \o SplitPath(b)
    ELSE Cwd \o SplitPath(a) \o SplitPath(b), <<>>))

\* The file that path.join(a, b) names when the file system resolves it
\* against the current directory: join never restarts at an absolute b.
PathJoinFile(a, b) ==
  PathString(NormalizeFrom(
    IF IsAbsolute(a) THEN SplitPath(a) \o SplitPath(b)
    ELSE Cwd \o SplitPath(a) \o SplitPath(b), <<>>))

\* The check applied to the joined path without resolving it.
PathWithinBaseUnresolved(basePath, targetPath) ==
  StartsWith(PathResolve1(basePath) \o <<"/">> \o targetPath, PathResolve1(basePath))

\* validatePathWithinBase throws iff this is FALSE.
PathWithinBase(basePath, targetPath) ==
  StartsWith(PathResolve2(basePath, targetPath), PathResolve1(basePath))

\* ------------------------------------------------------------------ inputs

KEY == <<"k">>
KH == <<"h">>
PROD == <<"p", "r", "o", "d">>
REV == <<"a", "1">>
PORT == <<"2", "2">>
WORKDIR == <<".">>
BIN == <<"v", "/", "d", "e", "p">>
BIN_ESCAPING == <<".", ".", "/", "d", "e", "p">>
VV == <<"v", "v">>
OPT == <<"-", "x">>
\* An input that is nothing but white space.
BLANK == <<" ">>

\* The values of the timeout input: absent, not a number, zero, negative, and
\* a positive number of milliseconds.
TimeoutInputs ==
  {Empty, <<"a", "b", "c">>, <<"0">>, <<"-", "5">>, <<"7">>}

\* Inputs that pass every check of run().
ValidInputs ==
  [sshPrivateKey |-> KEY, environment |-> PROD, revision |-> REV,
   deployerBinary |-> BIN, sshKnownHosts |-> KH, sshPort |-> PORT,
   workingDirectory |-> WORKDIR, verbosity |-> VV, options |-> OPT,
   timeout |-> Empty]

\* The action's inputs as the workflow gives them (the INPUT_* variables).
RawInputs ==
  [sshPrivateKey : {Empty, KEY}, environment : {PROD}, revision : {Empty, REV},
   deployerBinary : {BIN, BIN_ESCAPING}, sshKnownHosts : {Empty, KH},
   sshPort : {PORT}, workingDirectory : {WORKDIR}, verbosity : {VV},
   options : {OPT}, timeout : TimeoutInputs]
    \cup {[ValidInputs EXCEPT !.environment = BLANK],
          [ValidInputs EXCEPT !.revision = BLANK]}

NoInputs ==
  [sshPrivateKey |-> Empty, environment |-> Empty, revision |-> Empty,
   deployerBinary |-> Empty, sshKnownHosts |-> Empty, sshPort |-> Empty,
   workingDirectory |-> Empty, verbosity |-> Empty, options |-> Empty,
   timeout |-> Empty]

Streams == {"stdout", "stderr"}
\* The chunks of output a deployment may write to a stream.
StreamTexts(stream) == IF stream = "stdout" THEN {<<"O", "K">>} ELSE {<<"!">>}
ExitCodes == {0, 1, 2}

\* ------------------------------------------------------------------ errors

NoError == [kind |-> "none", n |-> 0]
Err(kind, n) == [kind |-> kind, n |-> n]

\* ------------------------------------------------------------------- files

NoFile == [exists |-> FALSE, content |-> Empty, mode |-> "none"]
\* A key file left behind by an earlier run on the same machine.
StaleKeyFile == [exists |-> TRUE, content |-> <<"o", "l", "d">>, mode |-> "0644"]

\* fs.writeFile(path, data, { mode }): the mode is applied when the file is
\* created; an existing file is truncated and keeps its mode.
WriteFile(old, data, mode) ==
  [exists |-> TRUE, content |-> data,
   mode |-> IF old.exists THEN old.mode ELSE mode]

NoConfig == [exists |-> FALSE, strict |-> FALSE, knownHosts |-> "none",
             identity |-> "none", port |-> Empty, mode |-> "none"]

\* The config with StrictHostKeyChecking yes whatever the known hosts are.
SshConfigAlwaysStrict(knownHosts, port) ==
  [exists |-> TRUE,
   strict |-> TRUE,
   knownHosts |-> IF knownHosts # Empty THEN "deployer_action_known_hosts"
                  ELSE "/dev/null",
   identity |-> "deployer_action_key",
   port |-> port,
   mode |-> "0600"]

\* The session SSH config setupSSH renders.
SshConfig(knownHosts, port) ==
  [exists |-> TRUE,
   strict |-> knownHosts # Empty,
   knownHosts |-> IF knownHosts # Empty THEN "deployer_action_known_hosts"
                  ELSE "/dev/null",
   identity |-> "deployer_action_key",
   port |-> port,
   mode |-> "0600"]

\* --------------------------------------------------------------- variables

VARIABLES
  pc,             \* the position of run()
  rawInputs,      \* the inputs as given
  inputs,         \* the inputs as getInputs returns them
  keyFile,        \* ~/.ssh/deployer_action_key
  knownHostsFile, \* ~/.ssh/deployer_action_known_hosts
  configFile,     \* <tmp>/ssh_config_deployer_<now>
  sockets,        \* the ssh_mux_* entries of the tmp directory
  env,            \* GIT_SSH_COMMAND, SSH_AUTH_SOCK, SSH_AGENT_PID
  agent,          \* the ssh-agent this run started: "none", "alive", "killed"
  agentKills,     \* calls of ssh-agent -k
  announcement,   \* what `ssh-agent -s` gave setupSSH
  sshAddRuns,     \* calls of ssh-add
  sshConfigPath,  \* run()'s local variable
  timeoutMs,      \* run()'s local variable
  args,           \* the argument vector handed to exec.exec
  proc,           \* the deployment subprocess: "none", "running", "exited"
  exitCode,       \* its exit code, once it exited
  timer,          \* the timeout timer: "none", "pending", "fired", "cleared"
  deployerOutput, \* runDeployment's accumulation buffer
  stdoutLive,     \* what was written to process.stdout
  stderrLive,     \* what was written to process.stderr
  delivered,      \* the chunks handed to the listeners, in order
  returned,       \* the value runDeployment returned
  error,          \* the error thrown in run()'s try block
  statusSets,     \* the values given to output deployment-status, in order
  outputText,     \* output deployer-output
  failedMsgs,     \* the errors given to core.setFailed, in order
  cleanupCalls,   \* invocations of cleanupSSH
  cleanupRaised,  \* an invocation of cleanupSSH threw to its caller
  cleanupTried,   \* the steps the last invocation of cleanupSSH attempted
  socketsTried,   \* the sockets whose unlink it attempted
  unlinkDenied,   \* cleanupSSH could not delete a file that exists
  socketsReported,\* the socket count cleanupSSH logged
  socketsRemoved, \* the sockets cleanupSSH deleted
  binChmods,      \* chmod calls on the Deployer binary
  probeRuns,      \* runs of <binary> --version
  binaryStat,     \* what fs.access answered for the binary, and its mode since
  probeResult,    \* what <binary> --version answered
  successLog,     \* the text verifyDeployerBinary gave to log.success
  groupLog,       \* core.startGroup / core.endGroup calls, in order
  warnings,       \* log.warning calls, in order
  fnIn,           \* the arguments of a function applied on its own
  fnOut           \* and its result

vars ==
  <<pc, rawInputs, inputs, keyFile, knownHostsFile, configFile, sockets, env,
    agent, agentKills, announcement, sshAddRuns, sshConfigPath, timeoutMs, args,
    proc, exitCode, timer, deployerOutput, stdoutLive, stderrLive, delivered,
    returned, error, statusSets, outputText, failedMsgs, cleanupCalls,
    cleanupRaised, cleanupTried, socketsTried, unlinkDenied, socketsReported,
    socketsRemoved, binChmods, probeRuns, binaryStat, probeResult, successLog,
    groupLog, warnings, fnIn, fnOut>>

inputVars == <<rawInputs, inputs>>
fileVars == <<keyFile, knownHostsFile, configFile>>
agentVars == <<env, agent, agentKills, announcement, sshAddRuns>>
procVars == <<proc, exitCode, deployerOutput, stdoutLive, stderrLive, delivered>>
reportVars == <<statusSets, outputText, failedMsgs>>
cleanupVars ==
  <<cleanupCalls, cleanupRaised, cleanupTried, socketsTried, unlinkDenied,
    socketsReported, socketsRemoved>>
verifyVars == <<binChmods, probeRuns, binaryStat, probeResult, successLog>>
fnVars == <<fnIn, fnOut>>

NoPath == "undefined"
ConfigPath == "ssh_config_deployer"
NoOutput == [set |-> FALSE, text |-> Empty]
NoFn == [f |-> "none"]
NoResult == [done |-> FALSE, val |-> <<>>]
\* `ssh-agent -s` has not been run.
NoAnnouncement == [started |-> FALSE, sock |-> FALSE, pid |-> FALSE]

\* The binary has not been looked at; <binary> --version has not been run.
NoStat == [exists |-> FALSE, executable |-> FALSE, mode |-> "none"]
NoProbe == [launched |-> FALSE, exitCode |-> 0, stdout |-> Empty]

\* The state of the process before run() is called.
RunStart ==
  /\ inputs = NoInputs
  /\ knownHostsFile = NoFile
  /\ configFile = NoConfig
  /\ sockets = {}
  /\ agent = "none"
  /\ agentKills = 0
  /\ announcement = NoAnnouncement
  /\ sshAddRuns = 0
  /\ sshConfigPath = NoPath
  /\ timeoutMs = Undefined
  /\ args = <<>>
  /\ proc = "none"
  /\ exitCode = 0
  /\ timer = "none"
  /\ deployerOutput = Empty
  /\ stdoutLive = Empty
  /\ stderrLive = Empty
  /\ delivered = <<>>
  /\ returned = Empty
  /\ error = NoError
  /\ statusSets = <<>>
  /\ outputText = NoOutput
  /\ failedMsgs = <<>>
  /\ cleanupCalls = 0
  /\ cleanupRaised = FALSE
  /\ cleanupTried = {}
  /\ socketsTried = {}
  /\ unlinkDenied = FALSE
  /\ socketsReported = 0
  /\ socketsRemoved = 0
  /\ binChmods = 0
  /\ probeRuns = 0
  /\ binaryStat = NoStat
  /\ probeResult = NoProbe
  /\ successLog = Empty
  /\ groupLog = <<>>
  /\ warnings = <<>>

\* The environment run() starts in: without an ssh-agent, or with the
\* variables of an agent that an earlier step of the job started.
StartEnvs ==
  {[GIT_SSH_COMMAND |-> "unset", SSH_AUTH_SOCK |-> pid, SSH_AGENT_PID |-> pid] :
     pid \in {"unset", "pre"}}

\* The inputs tried with an agent already in the environment.
PreAgentInputs == {ValidInputs, [ValidInputs EXCEPT !.sshPrivateKey = Empty]}

Init ==
  /\ rawInputs \in RawInputs
  /\ keyFile \in {NoFile, StaleKeyFile}
  /\ env \in StartEnvs
  /\ env.SSH_AGENT_PID = "pre" => (rawInputs \in PreAgentInputs /\ keyFile = NoFile)
  /\ pc = "getInputs"
  /\ RunStart
  /\ fnIn = NoFn
  /\ fnOut = NoResult

\* ---------------------------------------------------------------- getInputs

\* core.getInput(name, { required }): throws when a required input is empty,
\* and returns the value trimmed.
InputMissing(raw) ==
  raw.sshPrivateKey = Empty \/ raw.environment = Empty \/ raw.revision = Empty

getInputs(raw) == [f \in DOMAIN raw |-> Trim(raw[f])]

\* run(): const inputs = await getInputs(), and the two log lines after it.
GetInputs ==
  /\ pc = "getInputs"
  /\ IF InputMissing(rawInputs)
     THEN /\ error' = Err("InputRequired", 0)
          /\ pc' = "catch"
          /\ UNCHANGED inputs
     ELSE /\ inputs' = getInputs(rawInputs)
          /\ pc' = "setupSSH"
          /\ UNCHANGED error
  /\ UNCHANGED <<rawInputs, fileVars, sockets, agentVars, sshConfigPath,
                 timeoutMs, args, timer, procVars, returned, reportVars,
                 cleanupVars, verifyVars, groupLog, warnings, fnVars>>

\* ----------------------------------------------------------------- setupSSH

\* What running `ssh-agent -s` may give: whether an agent process was started,
\* and which of the two assignments its announcement holds.
AgentRuns ==
  {[started |-> FALSE, sock |-> FALSE, pid |-> FALSE]}
    \cup [started : {TRUE}, sock : BOOLEAN, pid : BOOLEAN]

\* The file system calls of setupSSH that may throw.
FsFailures == {"none", "mkdir", "writeKey", "writeKnownHosts", "writeConfig"}

\* One of the two assignments is enough (&& for ||).
AgentParsedEither(run) == run.sock \/ run.pid

\* if (!authSockMatch || !agentPidMatch) throw
AgentParsed(run) == run.sock /\ run.pid

\* The error setupSSH throws, NoError when it returns.
SetupError(fsFail, run, addOk) ==
  IF fsFail # "none" THEN Err("FsError", 0)
  ELSE IF ~run.started THEN Err("AgentExec", 0)
  ELSE IF ~AgentParsed(run) THEN Err("AgentParse", 0)
  ELSE IF ~addOk THEN Err("SshAdd", 0)
  ELSE NoError

\* What run() assigns to sshConfigPath: setupSSH's return value, which there
\* is only when setupSSH does not throw.
SetupReturn(err) == IF err = NoError THEN ConfigPath ELSE NoPath

\* setupSSH(privateKey, knownHosts, port), called from run().
SetupSSH ==
  /\ pc = "setupSSH"
  /\ \E fsFail \in FsFailures, run \in AgentRuns, addOk \in BOOLEAN :
       LET knownHosts == inputs.sshKnownHosts
           wroteKey == fsFail \notin {"mkdir", "writeKey"}
           wroteKnownHosts == wroteKey /\ knownHosts # Empty
                                /\ fsFail # "writeKnownHosts"
           wroteConfig == wroteKey /\ fsFail \notin {"writeKnownHosts", "writeConfig"}
           started == wroteConfig /\ run.started
           exported == started /\ AgentParsed(run)
           err == SetupError(fsFail, run, addOk)
       IN /\ fsFail = "writeKnownHosts" => knownHosts # Empty
          /\ keyFile' = IF wroteKey
                        THEN WriteFile(keyFile, Append(inputs.sshPrivateKey, NL), "0600")
                        ELSE keyFile
          /\ knownHostsFile' = IF wroteKnownHosts
                               THEN WriteFile(knownHostsFile, Append(knownHosts, NL), "0644")
                               ELSE knownHostsFile
          /\ warnings' = IF wroteKey /\ knownHosts = Empty
                         THEN Append(warnings, "NoKnownHosts") ELSE warnings
          /\ configFile' = IF wroteConfig THEN SshConfig(knownHosts, inputs.sshPort)
                           ELSE configFile
          /\ env' = [GIT_SSH_COMMAND |-> IF wroteConfig THEN ConfigPath
                                         ELSE env.GIT_SSH_COMMAND,
                     SSH_AUTH_SOCK |-> IF exported THEN "run" ELSE env.SSH_AUTH_SOCK,
                     SSH_AGENT_PID |-> IF exported THEN "run" ELSE env.SSH_AGENT_PID]
          /\ agent' = IF started THEN "alive" ELSE agent
          /\ announcement' = IF wroteConfig THEN run ELSE announcement
          /\ sshAddRuns' = IF exported THEN sshAddRuns + 1 ELSE sshAddRuns
          /\ sshConfigPath' = SetupReturn(err)
          /\ error' = err
          /\ groupLog' = IF err = NoError
                         THEN groupLog \o <<"start:setupSSH", "end:setupSSH">>
                         ELSE Append(groupLog, "start:setupSSH")
          /\ pc' = IF err = NoError THEN "verify" ELSE "catch"
  /\ UNCHANGED <<inputVars, sockets, agentKills, timeoutMs, args, timer, procVars,
                 returned, reportVars, cleanupVars, verifyVars, fnVars>>

\* ------------------------------------------------------ verifyDeployerBinary

\* What the file system and the version probe may answer.
VERSION_LINE == <<"7", NL>>
ProbeRuns ==
  [launched : BOOLEAN, exitCode : {0, 1}, stdout : {Empty, VERSION_LINE}]

\* The check of the probe that looks at the exit code only.
ProbeFailedExitOnly(probe) == probe.exitCode # 0

\* if (exitCode !== 0 || !stdout) throw
ProbeFailed(probe) == probe.exitCode # 0 \/ probe.stdout = Empty

\* The probe is run although chmod failed.
ProbeReachedDespiteChmod(within, exists, executable, chmodOk) == within /\ exists

\* exec.getExecOutput(binaryPath, ['--version']) is reached: nothing above it threw.
ProbeReached(within, exists, executable, chmodOk) ==
  within /\ exists /\ (executable \/ chmodOk)

\* verifyDeployerBinary without the call of validatePathWithinBase.
VerifyErrorNoPathGuard(workingDir, binaryPath, exists, executable, chmodOk, probe) ==
  IF ~exists THEN Err("NotFound", 0)
  ELSE IF ~executable /\ ~chmodOk THEN Err("Chmod", 0)
  ELSE IF ~probe.launched THEN Err("ExecError", 0)
  ELSE IF ProbeFailed(probe) THEN Err("VerifyFailed", probe.exitCode)
  ELSE NoError

\* The error verifyDeployerBinary throws, NoError when it returns.
VerifyError(workingDir, binaryPath, exists, executable, chmodOk, probe) ==
  IF ~PathWithinBase(workingDir, binaryPath) THEN Err("PathEscape", 0)
  ELSE IF ~exists THEN Err("NotFound", 0)
  ELSE IF ~executable /\ ~chmodOk THEN Err("Chmod", 0)
  ELSE IF ~probe.launched THEN Err("ExecError", 0)
  ELSE IF ProbeFailed(probe) THEN Err("VerifyFailed", probe.exitCode)
  ELSE NoError

\* verifyDeployerBinary(binaryPath, workingDir), called from run().
VerifyDeployerBinary ==
  /\ pc = "verify"
  /\ \E exists \in BOOLEAN, executable \in BOOLEAN, chmodOk \in BOOLEAN,
        probe \in ProbeRuns :
       LET err == VerifyError(inputs.workingDirectory, inputs.deployerBinary,
                              exists, executable, chmodOk, probe)
           within == PathWithinBase(inputs.workingDirectory, inputs.deployerBinary)
           chmodTried == within /\ exists /\ ~executable
           probed == ProbeReached(within, exists, executable, chmodOk)
       IN /\ ~exists => (~executable /\ ~chmodOk)
          /\ ~probe.launched => probe = NoProbe
          /\ binChmods' = IF chmodTried THEN binChmods + 1 ELSE binChmods
          /\ probeRuns' = IF probed THEN probeRuns + 1 ELSE probeRuns
          /\ binaryStat' =
               IF ~within THEN binaryStat
               ELSE [exists |-> exists, executable |-> executable,
                     mode |-> IF chmodTried /\ chmodOk THEN "0755"
                              ELSE IF exists THEN "asFound" ELSE "none"]
          /\ probeResult' = IF probed THEN probe ELSE probeResult
          /\ successLog' = IF err = NoError THEN Trim(probe.stdout) ELSE successLog
          /\ error' = err
          /\ groupLog' = IF err = NoError
                         THEN groupLog \o <<"start:verify", "end:verify">>
                         ELSE Append(groupLog, "start:verify")
          /\ pc' = IF err = NoError THEN "parseTimeout" ELSE "catch"
  /\ UNCHANGED <<inputVars, fileVars, sockets, agentVars, sshConfigPath, timeoutMs,
                 args, timer, procVars, returned, reportVars, cleanupVars,
                 warnings, fnVars>>

\* -------------------------------------------------------- run(): the timeout

\* const timeoutMs = inputs.timeout ? parseInt(inputs.timeout, 10) : undefined
ParsedTimeout(timeout) == IF timeout # Empty THEN ParseInt(timeout) ELSE Undefined

\* if (timeoutMs && (isNaN(timeoutMs) || timeoutMs <= 0)) throw
TimeoutRejected(ms) == Truthy(ms) /\ (ms.t = "NaN" \/ ms.v <= 0)

ParseTimeout ==
  /\ pc = "parseTimeout"
  /\ timeoutMs' = ParsedTimeout(inputs.timeout)
  /\ IF TimeoutRejected(timeoutMs')
     THEN /\ error' = Err("InvalidTimeout", 0)
          /\ pc' = "catch"
     ELSE /\ pc' = "runDeployment"
          /\ UNCHANGED error
  /\ UNCHANGED <<inputVars, fileVars, sockets, agentVars, sshConfigPath, args,
                 timer, procVars, returned, reportVars, cleanupVars, verifyVars,
                 groupLog, warnings, fnVars>>

\* ------------------------------------------------------------ runDeployment

\* No timer is ever set.
TimerAtLaunchNone(ms) == "none"

\* const timeoutPromise = timeoutMs ? new Promise(... setTimeout ...) : null
TimerAtLaunch(ms) == IF Truthy(ms) THEN "pending" ELSE "none"

\* The finally block leaves the timer alone.
ClearTimeoutNot(t) == t

\* finally { if (timeoutHandle) clearTimeout(timeoutHandle) }
ClearTimeout(t) == IF t = "pending" THEN "cleared" ELSE t

\* Mutant: the timeout error does not carry the duration.
TimeoutErrorNoDuration(ms) == Err("Timeout", 0)

\* reject(new Error(`Deployment timed out after ${timeoutMs}ms`))
TimeoutError(ms) == Err("Timeout", ms.v)

\* Mutant: the exit code is not looked at.
ExitErrorNever(code) == NoError

\* Mutant: the error does not carry the exit code.
ExitErrorNoCode(code) == IF code # 0 THEN Err("DeployFailed", 0) ELSE NoError

\* if (exitCode !== 0) throw new Error(`... failed with exit code ${exitCode}`)
ExitError(code) == IF code # 0 THEN Err("DeployFailed", code) ELSE NoError

\* The stdout listener puts the chunk in front of the buffer.
OnStdoutInFront(buffer, output) == output \o buffer

\* The stdout listener: deployerOutput += output
OnStdout(buffer, output) == buffer \o output

\* Mutant: the stderr listener only forwards the chunk.
OnStderrForwardOnly(buffer, output) == buffer

\* The stderr listener: deployerOutput += output
OnStderr(buffer, output) == buffer \o output

\* runDeployment up to its await: the argument vector, the timer and the
\* launch of the subprocess. A launch that exec.exec rejects ends the await at
\* once: the finally block clears the timer and the error leaves runDeployment.
RunDeployment ==
  /\ pc = "runDeployment"
  /\ args' = DeployArgs(inputs.environment, inputs.revision, inputs.verbosity,
                        inputs.options)
  /\ \E launched \in BOOLEAN :
       IF launched
       THEN /\ proc' = "running"
            /\ timer' = TimerAtLaunch(timeoutMs)
            /\ pc' = "awaitDeploy"
            /\ UNCHANGED error
       ELSE /\ timer' = ClearTimeout(TimerAtLaunch(timeoutMs))
            /\ error' = Err("ExecError", 0)
            /\ pc' = "catch"
            /\ UNCHANGED proc
  /\ groupLog' = Append(groupLog, "start:runDeployment")
  /\ UNCHANGED <<inputVars, fileVars, sockets, agentVars, sshConfigPath, timeoutMs,
                 exitCode, deployerOutput, stdoutLive, stderrLive, delivered,
                 returned, reportVars, cleanupVars, verifyVars, warnings, fnVars>>

\* The subprocess writes a chunk to one of its streams: the listener of that
\* stream appends it to the buffer and forwards it to the live stream. The
\* listeners stay registered for as long as the subprocess runs.
ProcChunk ==
  /\ proc = "running"
  /\ Len(delivered) < MaxChunks
  /\ \E stream \in Streams : \E output \in StreamTexts(stream) :
       /\ delivered' = Append(delivered, [stream |-> stream, text |-> output])
       /\ IF stream = "stdout"
          THEN /\ deployerOutput' = OnStdout(deployerOutput, output)
               /\ stdoutLive' = stdoutLive \o output
               /\ UNCHANGED stderrLive
          ELSE /\ deployerOutput' = OnStderr(deployerOutput, output)
               /\ stderrLive' = stderrLive \o output
               /\ UNCHANGED stdoutLive
  /\ UNCHANGED <<pc, inputVars, fileVars, sockets, agentVars, sshConfigPath,
                 timeoutMs, args, proc, exitCode, timer, returned, error,
                 reportVars, cleanupVars, verifyVars, groupLog, warnings, fnVars>>

\* The deployment's SSH connections leave a control socket in the tmp directory
\* (ControlMaster auto, ControlPath <tmp>/ssh_mux_%h_%p_%r).
ProcSocket ==
  /\ proc = "running"
  /\ \E sock \in 1..MaxSockets :
       /\ sock \notin sockets
       /\ sockets' = sockets \cup {sock}
  /\ UNCHANGED <<pc, inputVars, fileVars, agentVars, sshConfigPath, timeoutMs,
                 args, timer, procVars, returned, error, reportVars, cleanupVars,
                 verifyVars, groupLog, warnings, fnVars>>

\* The subprocess exits. While runDeployment awaits it, the await ends with the
\* exit code: the timer is cleared, and runDeployment throws or returns its
\* buffer. After a timeout nothing awaits the subprocess any more.
ProcExit ==
  /\ proc = "running"
  /\ \E code \in ExitCodes :
       /\ proc' = "exited"
       /\ exitCode' = code
       /\ IF pc = "awaitDeploy"
          THEN /\ timer' = ClearTimeout(timer)
               /\ error' = ExitError(code)
               /\ IF ExitError(code) # NoError
                  THEN /\ pc' = "catch"
                       /\ UNCHANGED returned
                  ELSE /\ pc' = "setOutputs"
                       /\ returned' = deployerOutput
               /\ groupLog' = Append(groupLog, "end:runDeployment")
          ELSE UNCHANGED <<pc, timer, error, returned, groupLog>>
  /\ UNCHANGED <<inputVars, fileVars, sockets, agentVars, sshConfigPath, timeoutMs,
                 args, deployerOutput, stdoutLive, stderrLive, delivered,
                 reportVars, cleanupVars, verifyVars, warnings, fnVars>>

\* A timer that was cleared fires all the same, and its rejection is taken
\* although the race is settled.
TimerRejectsAfterClear(p, t) ==
  p \in {"awaitDeploy", "setOutputs", "catch"} /\ t \in {"pending", "cleared"}

\* The timer's callback runs and its reject(...) settles the race: the race
\* is still awaited, and the timer was set and not cleared.
TimerRejects(p, t) == p = "awaitDeploy" /\ t = "pending"

\* The timeout path kills the subprocess.
ProcAfterTimeoutKilled(p) == "killed"

\* What the timeout path does to the subprocess: the timer's callback only
\* rejects the race, and the finally block only looks at the timer.
ProcAfterTimeout(p) == p

\* The timer fires while runDeployment awaits the race: the race rejects, the
\* finally block finds the timer spent, and the error leaves runDeployment. The
\* subprocess is left running.
TimerFire ==
  /\ TimerRejects(pc, timer)
  /\ timer' = "fired"
  /\ error' = TimeoutError(timeoutMs)
  /\ proc' = ProcAfterTimeout(proc)
  /\ pc' = "catch"
  /\ UNCHANGED <<inputVars, fileVars, sockets, agentVars, sshConfigPath, timeoutMs,
                 args, exitCode, deployerOutput, stdoutLive, stderrLive, delivered,
                 returned, reportVars, cleanupVars, verifyVars, groupLog, warnings,
                 fnVars>>

\* --------------------------------------------------------- run(): the report

\* The outputs run() sets after runDeployment returned `output`.
SuccessOutput(output) == [set |-> TRUE, text |-> output]

\* Mutant: the catch block does not clean up.
CatchNextSkipsCleanup == "done"

\* Where run() goes after its catch block has reported the failure: the
\* try { await cleanupSSH(sshConfigPath) } of the catch block.
CatchNext == "cleanup"

\* Mutant: the catch block sets deployer-output too.
CatchOutputSet(old) == [set |-> TRUE, text |-> old.text]

\* The output deployer-output as the catch block leaves it: the catch block
\* sets deployment-status only.
CatchOutput(old) == old

\* Mutant: the catch block marks the run failed but sets no status.
CatchStatusNotSet(sets) == sets

\* core.setOutput('deployment-status', 'failed')
CatchStatus(sets) == Append(sets, "failed")

\* core.setOutput('deployment-status', 'success');
\* core.setOutput('deployer-output', output)
SetOutputs ==
  /\ pc = "setOutputs"
  /\ statusSets' = Append(statusSets, "success")
  /\ outputText' = SuccessOutput(returned)
  /\ pc' = "cleanup"
  /\ UNCHANGED <<inputVars, fileVars, sockets, agentVars, sshConfigPath, timeoutMs,
                 args, timer, procVars, returned, error, failedMsgs, cleanupVars,
                 verifyVars, groupLog, warnings, fnVars>>

\* catch (error): core.setFailed(...); core.setOutput('deployment-status', 'failed')
Catch ==
  /\ pc = "catch"
  /\ failedMsgs' = Append(failedMsgs, error)
  /\ statusSets' = CatchStatus(statusSets)
  /\ outputText' = CatchOutput(outputText)
  /\ pc' = CatchNext
  /\ UNCHANGED <<inputVars, fileVars, sockets, agentVars, sshConfigPath, timeoutMs,
                 args, timer, procVars, returned, error, cleanupVars, verifyVars,
                 groupLog, warnings, fnVars>>

\* --------------------------------------------------------------- cleanupSSH

\* The files cleanupSSH tries to delete and that exist.
Deletable ==
  (IF keyFile.exists THEN {"key"} ELSE {})
    \cup (IF knownHostsFile.exists THEN {"knownHosts"} ELSE {})
    \cup (IF sshConfigPath # NoPath /\ configFile.exists THEN {"config"} ELSE {})

\* cleanupSSH unsets what setupSSH exported.
EnvAfterCleanupUnset(e) ==
  [GIT_SSH_COMMAND |-> "unset", SSH_AUTH_SOCK |-> "unset", SSH_AGENT_PID |-> "unset"]

\* process.env when cleanupSSH returns: it reads SSH_AGENT_PID and assigns
\* nothing, and calls neither core.exportVariable nor delete.
EnvAfterCleanup(e) == e

\* The agent is never killed.
KillIssuedNever(e) == FALSE

\* const agentPid = process.env.SSH_AGENT_PID; if (agentPid) ...
KillIssued(e) == e.SSH_AGENT_PID # "unset"

\* The steps of cleanupSSH, in the order of the code.
CleanupStepNo ==
  [key |-> 1, knownHosts |-> 2, config |-> 3, readdir |-> 4, socket |-> 5,
   kill |-> 6]

\* The try block around the unlink of the private key is missing.
CleanupCaughtKeyUnguarded == {"knownHosts", "config", "readdir", "socket", "kill"}

\* The .catch on the unlink of a socket is missing.
CleanupCaughtSocketUnguarded == {"key", "knownHosts", "config", "readdir", "kill"}

\* The steps whose failure cleanupSSH catches: each unlink, the readdir and the
\* kill sit in a try block of their own, each socket unlink has a .catch.
CleanupCaught == {"key", "knownHosts", "config", "readdir", "socket", "kill"}

\* cleanupSSH was called from the try block of run(): a throw goes to its catch.
InTryBlock == statusSets # <<>> /\ failedMsgs = <<>>

\* cleanupSSH(configPath). `denied` are the files whose unlink is refused,
\* `sockDenied` the sockets whose unlink is refused; an unlink of a file that
\* does not exist fails too; killOk is FALSE when `ssh-agent -k` cannot be run.
\* A step runs when no step before it threw past its try block.
CleanupSSH ==
  /\ pc = "cleanup"
  /\ \E denied \in SUBSET Deletable, readdirOk \in BOOLEAN,
        sockDenied \in SUBSET sockets, killOk \in BOOLEAN :
       LET thrown ==
             (IF ~keyFile.exists \/ "key" \in denied THEN {"key"} ELSE {})
               \cup (IF ~knownHostsFile.exists \/ "knownHosts" \in denied
                     THEN {"knownHosts"} ELSE {})
               \cup (IF sshConfigPath # NoPath
                        /\ (~configFile.exists \/ "config" \in denied)
                     THEN {"config"} ELSE {})
               \cup (IF ~readdirOk THEN {"readdir"} ELSE {})
               \cup (IF sockDenied # {} THEN {"socket"} ELSE {})
               \cup (IF KillIssued(env) /\ ~killOk THEN {"kill"} ELSE {})
           escaping == thrown \ CleanupCaught
           Runs(step) ==
             \A e \in escaping : CleanupStepNo[e] >= CleanupStepNo[step]
           listed == Runs("readdir") /\ readdirOk
           applicable ==
             {"key", "knownHosts", "readdir"}
               \cup (IF sshConfigPath # NoPath THEN {"config"} ELSE {})
               \cup (IF KillIssued(env) THEN {"kill"} ELSE {})
           firstDenied == CHOOSE s \in sockDenied : \A t \in sockDenied : s <= t
           unlinked ==
             IF ~listed THEN {}
             ELSE IF "socket" \in escaping THEN {s \in sockets : s <= firstDenied}
             ELSE sockets
           killed == Runs("kill") /\ KillIssued(env)
       IN /\ sockDenied # {} => readdirOk
          /\ killOk => KillIssued(env)
          /\ keyFile' = IF "key" \in Deletable \ denied THEN NoFile ELSE keyFile
          /\ knownHostsFile' =
               IF Runs("knownHosts") /\ "knownHosts" \in Deletable \ denied
               THEN NoFile ELSE knownHostsFile
          /\ configFile' = IF Runs("config") /\ "config" \in Deletable \ denied
                           THEN NoConfig ELSE configFile
          /\ cleanupTried' = {step \in applicable : Runs(step)}
          /\ socketsTried' = unlinked
          /\ sockets' = sockets \ (unlinked \ sockDenied)
          /\ socketsReported' = IF listed /\ "socket" \notin escaping
                                THEN Cardinality(sockets) ELSE 0
          /\ socketsRemoved' = Cardinality(unlinked \ sockDenied)
          /\ unlinkDenied' = (unlinkDenied \/ denied # {} \/ sockDenied # {})
          /\ agentKills' = IF killed THEN agentKills + 1 ELSE agentKills
          /\ env' = EnvAfterCleanup(env)
          /\ agent' = IF killed /\ killOk /\ env.SSH_AGENT_PID = "run"
                         /\ agent = "alive"
                      THEN "killed" ELSE agent
          /\ cleanupRaised' = (cleanupRaised \/ escaping # {})
          /\ groupLog' = IF escaping = {}
                         THEN groupLog \o <<"start:cleanupSSH", "end:cleanupSSH">>
                         ELSE Append(groupLog, "start:cleanupSSH")
          /\ IF escaping # {} /\ InTryBlock
             THEN /\ error' = Err("Cleanup", 0)
                  /\ pc' = "catch"
             ELSE /\ pc' = "done"
                  /\ UNCHANGED error
  /\ cleanupCalls' = cleanupCalls + 1
  /\ UNCHANGED <<inputVars, announcement, sshAddRuns, sshConfigPath, timeoutMs,
                 args, timer, procVars, returned, reportVars, verifyVars, warnings,
                 fnVars>>

\* ------------------------------------------------------- the specification

Next ==
  \/ GetInputs
  \/ SetupSSH
  \/ VerifyDeployerBinary
  \/ ParseTimeout
  \/ RunDeployment
  \/ ProcChunk
  \/ ProcSocket
  \/ ProcExit
  \/ TimerFire
  \/ SetOutputs
  \/ Catch
  \/ CleanupSSH

Spec == Init /\ [][Next]_vars

\* ------------------------------------------------- run() under fair scheduling

\* Runs with every input given, over all values of the timeout input.
LiveInputs == {[ValidInputs EXCEPT !.timeout = t] : t \in TimeoutInputs}

InitLive ==
  /\ Init
  /\ rawInputs \in LiveInputs
  /\ keyFile = NoFile
  /\ env.SSH_AGENT_PID = "unset"

\* The steps of run() itself. Each awaits file system calls and the setup,
\* verification and cleanup subprocesses, which are taken to terminate, so the
\* event loop resumes run() after each of them.
RunStep ==
  \/ GetInputs
  \/ SetupSSH
  \/ VerifyDeployerBinary
  \/ ParseTimeout
  \/ RunDeployment
  \/ SetOutputs
  \/ Catch
  \/ CleanupSSH

\* run()'s steps are taken when they can be, and a timer that is set and not
\* cleared fires. Nothing obliges the deployment subprocess to write or exit.
SpecLive ==
  /\ InitLive
  /\ [][Next]_vars
  /\ WF_vars(RunStep)
  /\ WF_vars(TimerFire)

\* ------------------- the argument vector of runDeployment, over its inputs

PRODUCTION == <<"p", "r", "o", "d", "u", "c", "t", "i", "o", "n">>
ABC123 == <<"a", "b", "c", "1", "2", "3">>
PARALLEL_LIMIT ==
  <<"-", "-", "p", "a", "r", "a", "l", "l", "e", "l", " ",
    "-", "-", "l", "i", "m", "i", "t", "=", "5">>

OptChars == {"a", SP, SQ, DQ}

\* Every string over OptChars of at most MaxOptLen characters.
ShortStrings == UNION {[1..n -> OptChars] : n \in 0..MaxOptLen}

ArgInputs ==
  [f : {"DeployArgs"},
   environment : {PRODUCTION, <<"s", " ", "t">>},
   revision : {ABC123, <<"'">>},
   verbosity : {Empty, <<"v">>, <<"v", "v">>, <<"v", "v", "v">>, <<"q">>,
                <<"v", " ", "-", "f">>},
   options : ShortStrings \cup {PARALLEL_LIMIT}]

\* No run() in progress: the process state a function applied on its own sees.
Idle ==
  /\ pc = "idle"
  /\ rawInputs = NoInputs
  /\ keyFile = NoFile
  /\ env = [GIT_SSH_COMMAND |-> "unset", SSH_AUTH_SOCK |-> "unset",
            SSH_AGENT_PID |-> "unset"]
  /\ RunStart

InitArgs ==
  /\ fnIn \in ArgInputs
  /\ fnOut = NoResult
  /\ Idle

\* runDeployment builds its argument vector from the four inputs.
ApplyDeployArgs ==
  /\ fnIn.f = "DeployArgs"
  /\ ~fnOut.done
  /\ fnOut' = [done |-> TRUE,
               val |-> DeployArgs(fnIn.environment, fnIn.revision, fnIn.verbosity,
                                  fnIn.options)]
  /\ UNCHANGED <<pc, inputVars, fileVars, sockets, agentVars, sshConfigPath,
                 timeoutMs, args, timer, procVars, returned, error, reportVars,
                 cleanupVars, verifyVars, groupLog, warnings, fnIn>>

NextArgs == ApplyDeployArgs

SpecArgs == InitArgs /\ [][NextArgs]_vars

\* ------------------------------------ validatePathWithinBase on its own

APP == <<"a", "p", "p">>
APP_SECRETS == <<"a", "p", "p", "-", "s", "e", "c", "r", "e", "t", "s">>
VENDOR_BIN_DEP ==
  <<"v", "e", "n", "d", "o", "r", "/", "b", "i", "n", "/", "d", "e", "p">>
UP_SECRETS == <<".", ".", "/", "s", "e", "c", "r", "e", "t", "s">>
ETC_PASSWD == <<"/", "e", "t", "c", "/", "p", "a", "s", "s", "w", "d">>
UP_APP_SECRETS_X == DotDotSeg \o <<"/">> \o APP_SECRETS \o <<"/", "x">>

\* The segments generated paths are made of.
PathSegments == {DotDotSeg, APP, APP_SECRETS, <<"x">>, <<"w">>}

\* Segments joined by "/".
RECURSIVE JoinSegments(_)
JoinSegments(segs) ==
  IF Len(segs) = 1 THEN segs[1]
  ELSE segs[1] \o <<"/">> \o JoinSegments(Tail(segs))

\* Relative and absolute paths of up to MaxPathSegs segments.
PathStrings ==
  LET lists == UNION {[1..n -> PathSegments] : n \in 1..MaxPathSegs}
  IN {JoinSegments(l) : l \in lists} \cup {<<"/">> \o JoinSegments(l) : l \in lists}

ValidatePathInputs ==
  [f : {"validatePathWithinBase"},
   basePath : {APP, WORKDIR},
   targetPath : PathStrings \cup {VENDOR_BIN_DEP, UP_SECRETS, ETC_PASSWD,
                                  UP_APP_SECRETS_X}]

InitPath ==
  /\ fnIn \in ValidatePathInputs
  /\ fnOut = NoResult
  /\ Idle

\* validatePathWithinBase returns the resolved target or throws.
ApplyValidatePath ==
  /\ fnIn.f = "validatePathWithinBase"
  /\ ~fnOut.done
  /\ fnOut' = [done |-> TRUE,
               val |-> [ok |-> PathWithinBase(fnIn.basePath, fnIn.targetPath),
                        path |-> PathResolve2(fnIn.basePath, fnIn.targetPath)]]
  /\ UNCHANGED <<pc, inputVars, fileVars, sockets, agentVars, sshConfigPath,
                 timeoutMs, args, timer, procVars, returned, error, reportVars,
                 cleanupVars, verifyVars, groupLog, warnings, fnIn>>

NextPath == ApplyValidatePath

SpecPath == InitPath /\ [][NextPath]_vars

\* -------------------------------------------- parseShellArgs on its own

TAG_FLAG ==
  <<"-", "-", "t", "a", "g", "=", "\"", "v", "1", ".", "0", "\"", " ",
    "-", "-", "f", "l", "a", "g">>
QUOTED_AB_C == <<"'", "a", " ", "b", "'", " ", "c">>

\* Every string over OptChars of at most MaxParseLen characters.
ParseStrings == UNION {[1..n -> OptChars] : n \in 0..MaxParseLen}

ParseInputs ==
  [f : {"parseShellArgs"},
   input : ParseStrings \cup {TAG_FLAG, QUOTED_AB_C, PARALLEL_LIMIT}]

InitParse ==
  /\ fnIn \in ParseInputs
  /\ fnOut = NoResult
  /\ Idle

ApplyParseShellArgs ==
  /\ fnIn.f = "parseShellArgs"
  /\ ~fnOut.done
  /\ fnOut' = [done |-> TRUE, val |-> parseShellArgs(fnIn.input)]
  /\ UNCHANGED <<pc, inputVars, fileVars, sockets, agentVars, sshConfigPath,
                 timeoutMs, args, timer, procVars, returned, error, reportVars,
                 cleanupVars, verifyVars, groupLog, warnings, fnIn>>

NextParse == ApplyParseShellArgs

SpecParse == InitParse /\ [][NextParse]_vars

\* ------------------------------------------------ cleanupSSH on its own

\* cleanupSSH about to be called with any configPath, in any state of the
\* home and tmp directories and of the agent.
InitCleanup ==
  /\ pc = "cleanup"
  /\ rawInputs = NoInputs
  /\ inputs = NoInputs
  /\ keyFile \in {NoFile, StaleKeyFile}
  /\ knownHostsFile \in {NoFile, WriteFile(NoFile, Append(KH, NL), "0644")}
  /\ configFile \in {NoConfig, SshConfig(KH, PORT)}
  /\ sockets \in SUBSET (1..MaxCleanupSockets)
  /\ sshConfigPath \in {NoPath, ConfigPath}
  /\ \E pid \in {"unset", "run"} :
       env = [GIT_SSH_COMMAND |-> "unset", SSH_AUTH_SOCK |-> pid,
              SSH_AGENT_PID |-> pid]
  /\ agent \in {"none", "alive"}
  /\ agentKills = 0
  /\ announcement = NoAnnouncement
  /\ sshAddRuns = 0
  /\ timeoutMs = Undefined
  /\ args = <<>>
  /\ proc = "none"
  /\ exitCode = 0
  /\ timer = "none"
  /\ deployerOutput = Empty
  /\ stdoutLive = Empty
  /\ stderrLive = Empty
  /\ delivered = <<>>
  /\ returned = Empty
  /\ error = NoError
  /\ statusSets = <<>>
  /\ outputText = NoOutput
  /\ failedMsgs = <<>>
  /\ cleanupCalls = 0
  /\ cleanupRaised = FALSE
  /\ cleanupTried = {}
  /\ socketsTried = {}
  /\ unlinkDenied = FALSE
  /\ socketsReported = 0
  /\ socketsRemoved = 0
  /\ binChmods = 0
  /\ probeRuns = 0
  /\ binaryStat = NoStat
  /\ probeResult = NoProbe
  /\ successLog = Empty
  /\ groupLog = <<>>
  /\ warnings = <<>>
  /\ fnIn = NoFn
  /\ fnOut = NoResult

\* The caller calls cleanupSSH once more, with the same configPath.
CleanupAgain ==
  /\ pc = "done"
  /\ cleanupCalls < MaxCleanupCalls
  /\ pc' = "cleanup"
  /\ UNCHANGED <<inputVars, fileVars, sockets, agentVars, sshConfigPath,
                 timeoutMs, args, timer, procVars, returned, error, reportVars,
                 cleanupVars, verifyVars, groupLog, warnings, fnVars>>

NextCleanup ==
  \/ CleanupSSH
  \/ CleanupAgain

SpecCleanup == InitCleanup /\ [][NextCleanup]_vars

\* -------------------------------- setupSSH's configPath in two runs on a host

MaxNow == 12
MaxRuns == 2

\* `${n}` for a non-negative integer: its decimal digits.
DigitChar(d) == CHOOSE c \in Digits : DigitVal(c) = d
RECURSIVE DecimalString(_)
DecimalString(n) ==
  IF n < 10 THEN <<DigitChar(n)>>
  ELSE Append(DecimalString(n \div 10), DigitChar(n % 10))

CONFIG_PREFIX ==
  <<"s", "s", "h", "_", "c", "o", "n", "f", "i", "g", "_",
    "d", "e", "p", "l", "o", "y", "e", "r", "_">>

\* path.join(tmpDir, `ssh_config_deployer_${Date.now()}`) within the tmp directory.
configPath(now) == CONFIG_PREFIX \o DecimalString(now)

\* The millisecond clock of the host, and no run has reached setupSSH.
InitConfigPath ==
  /\ fnIn \in [f : {"configPath"}, now : {0}]
  /\ fnOut = [done |-> FALSE, val |-> <<>>]
  /\ Idle

\* A millisecond passes.
ClockTick ==
  /\ fnIn.f = "configPath"
  /\ fnIn.now < MaxNow
  /\ fnIn' = [fnIn EXCEPT !.now = @ + 1]
  /\ UNCHANGED <<pc, inputVars, fileVars, sockets, agentVars, sshConfigPath,
                 timeoutMs, args, timer, procVars, returned, error, reportVars,
                 cleanupVars, verifyVars, groupLog, warnings, fnOut>>

\* The next run on the host computes its configPath from Date.now().
ApplyConfigPath ==
  /\ fnIn.f = "configPath"
  /\ ~fnOut.done
  /\ LET paths == Append(fnOut.val, configPath(fnIn.now))
     IN fnOut' = [done |-> Len(paths) = MaxRuns, val |-> paths]
  /\ UNCHANGED <<pc, inputVars, fileVars, sockets, agentVars, sshConfigPath,
                 timeoutMs, args, timer, procVars, returned, error, reportVars,
                 cleanupVars, verifyVars, groupLog, warnings, fnIn>>

NextConfigPath ==
  \/ ClockTick
  \/ ApplyConfigPath

SpecConfigPath == InitConfigPath /\ [][NextConfigPath]_vars

\* ================================================================== claims

\* The text of a sequence of chunks, in their order.
RECURSIVE ChunkText(_)
ChunkText(chunks) ==
  IF chunks = <<>> THEN Empty ELSE Head(chunks).text \o ChunkText(Tail(chunks))

Terminated == pc = "done"
StatusSet == statusSets # <<>>
\* The subprocess exited while runDeployment awaited it (the timer, if there
\* was one, had not fired).
ExitedInTime == proc = "exited" /\ timer # "fired"
\* The timer fired while runDeployment awaited the subprocess.
TimedOut == timer = "fired"

\* C1: whichever step of run() fails, or if none fails, cleanupSSH has been
\* invoked by the time run() terminates.
C1_CleanupBeforeTermination == Terminated => cleanupCalls >= 1

\* A run whose deployment timed out has terminated, after cleanup.
C1_Witness == Terminated /\ error.kind = "Timeout" /\ cleanupCalls = 1

\* C2: when run() terminates and no deletion that cleanup attempted failed,
\* the key file, the known-hosts file and the session config file are gone.
C2_ArtifactsGoneAtTermination ==
  (Terminated /\ ~unlinkDenied) =>
    (~keyFile.exists /\ ~knownHostsFile.exists /\ ~configFile.exists)

\* C3: at termination deployment-status was set exactly once, to 'success' or
\* 'failed', and it is 'success' iff setup, verification, the timeout check
\* and the deployment (exit code 0 before any timeout) all succeeded.
C3_StatusMatchesOutcome ==
  Terminated =>
    /\ Len(statusSets) = 1
    /\ statusSets[1] \in {"success", "failed"}
    /\ statusSets[1] = "success" <=>
         (error = NoError /\ sshConfigPath # NoPath /\ probeRuns = 1
            /\ ExitedInTime /\ exitCode = 0)

\* A run with a timeout configured whose deployment exited 0 in time.
C3_Witness ==
  Terminated /\ statusSets = <<"success">> /\ timer = "cleared" /\ exitCode = 0

\* C4, as claimed: every terminating run has set both outputs.
C4_BothOutputsSet == Terminated => (StatusSet /\ outputText.set)

\* C4, amended: every terminating run has set deployment-status, and
\* deployer-output is set on the success path and on no failure path.
C4_OutputsAtTermination ==
  Terminated => (StatusSet /\ (outputText.set <=> statusSets = <<"success">>))

\* A deployment that produced output and then exited non-zero: the run ends
\* with the status set and deployer-output not set.
C4_Witness ==
  Terminated /\ error.kind = "DeployFailed" /\ delivered # <<>>
    /\ statusSets = <<"failed">> /\ ~outputText.set

\* C5, as claimed: an outcome is reported only after cleanupSSH was attempted.
C5_OutcomeOnlyAfterCleanup ==
  (StatusSet \/ failedMsgs # <<>>) => cleanupCalls >= 1

\* C5, amended: the outcome is reported before cleanupSSH is attempted, and
\* cleanupSSH is attempted before run() terminates: no run terminates with an
\* outcome reported and cleanup skipped.
C5_CleanupFollowsReport ==
  /\ (pc = "cleanup" \/ cleanupCalls >= 1) => StatusSet
  /\ (Terminated /\ StatusSet) => cleanupCalls >= 1

\* The failure is reported and cleanup has not run yet.
C5_Witness ==
  pc = "cleanup" /\ statusSets = <<"failed">> /\ failedMsgs # <<>>
    /\ cleanupCalls = 0

\* C6: once the timer has fired before the subprocess completed, runDeployment
\* has failed with the timeout error carrying the configured duration, and it
\* never returns success, whatever the subprocess does afterwards.
C6_TimeoutNeverSucceeds ==
  TimedOut =>
    /\ error.kind = "Timeout"
    /\ timeoutMs.t = "number" /\ timeoutMs.v > 0
    /\ error.n = timeoutMs.v
    /\ pc \in {"catch", "cleanup", "done"}
    /\ "success" \notin {statusSets[i] : i \in DOMAIN statusSets}
    /\ ~outputText.set

\* The timer fired, and the subprocess went on and exited 0 afterwards.
C6_Witness ==
  TimedOut /\ proc = "exited" /\ exitCode = 0 /\ delivered # <<>> /\ Terminated

\* C7: when the subprocess completes before any timer fires with exit code c,
\* runDeployment fails with an error carrying c if c is not zero, and returns
\* the accumulated output buffer if c is zero.
C7_ExitCodeDecides ==
  ExitedInTime =>
    IF exitCode # 0
    THEN /\ error = Err("DeployFailed", exitCode)
         /\ pc \in {"catch", "cleanup", "done"}
    ELSE /\ error = NoError
         /\ pc \in {"setOutputs", "cleanup", "done"}
         /\ returned = deployerOutput

\* The subprocess produced output and exited with code 2.
C7_Witness ==
  ExitedInTime /\ exitCode = 2 /\ error.n = 2 /\ delivered # <<>>

\* C8, as claimed: if setup and verification succeeded and the subprocess
\* exited 0, the status is 'success' and deployer-output is the full text.
C8_EndToEndSuccess ==
  (Terminated /\ sshConfigPath # NoPath /\ probeRuns = 1
     /\ proc = "exited" /\ exitCode = 0) =>
    /\ statusSets = <<"success">>
    /\ outputText = [set |-> TRUE, text |-> ChunkText(delivered)]

\* C8, amended: if setup and verification succeeded and the subprocess exited
\* 0 before any configured timeout fired, the status is 'success' and
\* deployer-output is the text of every chunk delivered to the listeners.
C8_EndToEndSuccessInTime ==
  (Terminated /\ sshConfigPath # NoPath /\ probeRuns = 1
     /\ ExitedInTime /\ exitCode = 0) =>
    /\ statusSets = <<"success">>
    /\ outputText = [set |-> TRUE, text |-> ChunkText(delivered)]

\* A successful run whose deployment wrote to stdout and then to stderr.
C8_Witness ==
  /\ Terminated /\ statusSets = <<"success">>
  /\ Len(delivered) = 2
  /\ delivered[1].stream = "stdout" /\ delivered[2].stream = "stderr"
  /\ outputText.text = <<"O", "K", "!">>

\* The verbosity flags Deployer knows.
VerbosityFlags == {<<"-", "v">>, <<"-", "v", "v">>, <<"-", "v", "v", "v">>}
VerbosityLevels == {<<"v">>, <<"v", "v">>, <<"v", "v", "v">>}

\* C9: the argument vector is ['deploy', environment, '--revision=' + revision],
\* then the verbosity flag if verbosity is not empty, then the tokens of
\* parseShellArgs(options) in their order; and (production, abc123, vv,
\* '--parallel --limit=5') gives the vector of the example.
C9_ArgumentVector ==
  fnOut.done =>
    LET v == fnOut.val
        k == IF fnIn.verbosity # Empty THEN 1 ELSE 0
        tokens == parseShellArgs(fnIn.options)
    IN /\ Len(v) = 3 + k + Len(tokens)
       /\ v[1] = <<"d", "e", "p", "l", "o", "y">>
       /\ v[2] = fnIn.environment
       /\ v[3] = <<"-", "-", "r", "e", "v", "i", "s", "i", "o", "n", "=">>
                   \o fnIn.revision
       /\ k = 1 => v[4] = <<"-">> \o fnIn.verbosity
       /\ \A i \in 1..Len(tokens) : v[3 + k + i] = tokens[i]
       /\ (fnIn.environment = PRODUCTION /\ fnIn.revision = ABC123
             /\ fnIn.verbosity = <<"v", "v">> /\ fnIn.options = PARALLEL_LIMIT) =>
            v = << <<"d", "e", "p", "l", "o", "y">>,
                   <<"p", "r", "o", "d", "u", "c", "t", "i", "o", "n">>,
                   <<"-", "-", "r", "e", "v", "i", "s", "i", "o", "n", "=",
                     "a", "b", "c", "1", "2", "3">>,
                   <<"-", "v", "v">>,
                   <<"-", "-", "p", "a", "r", "a", "l", "l", "e", "l">>,
                   <<"-", "-", "l", "i", "m", "i", "t", "=", "5">> >>

\* The vector of the example has been built.
C9_Witness ==
  /\ fnOut.done
  /\ fnIn.environment = PRODUCTION /\ fnIn.revision = ABC123
  /\ fnIn.verbosity = <<"v", "v">> /\ fnIn.options = PARALLEL_LIMIT
  /\ Len(fnOut.val) = 6

Launched == proc # "none"

\* C11: in every argument vector passed to the deployment subprocess the
\* environment element and the revision value are not empty, and a run whose
\* environment or revision input is empty, or empty once trimmed, never
\* launches the deployment subprocess.
C11_EnvironmentAndRevisionNotEmpty ==
  Launched =>
    /\ args[2] # Empty
    /\ args[3] # RevisionPrefix
    /\ Trim(rawInputs.environment) # Empty
    /\ Trim(rawInputs.revision) # Empty

\* A positive integer in decimal notation: digits only, with a value above 0.
IsPositiveInteger(s) ==
  /\ s # Empty
  /\ \A i \in 1..Len(s) : s[i] \in Digits
  /\ ParseDigits(s, 0, FALSE).v > 0

\* A timeout input was supplied and is no positive integer.
BadTimeoutSupplied ==
  inputs.timeout # Empty /\ ~IsPositiveInteger(inputs.timeout)

\* C12: whenever the timeout input is supplied and is not a positive integer,
\* the run fails with the invalid-timeout error (unless an earlier step has
\* failed already) and the deployment subprocess is never launched.
C12_BadTimeoutNeverLaunches ==
  BadTimeoutSupplied =>
    /\ ~Launched
    /\ pc \notin {"runDeployment", "awaitDeploy", "setOutputs"}
    /\ Terminated => error # NoError

\* The segments of a resolved path.
ResolvedSegments(resolved) == NormalizeFrom(SplitPath(resolved), <<>>)

\* The resolved target is the resolved base or lies below it, segment by
\* segment.
WithinBySegments(basePath, targetPath) ==
  LET b == ResolvedSegments(PathResolve1(basePath))
      t == ResolvedSegments(PathResolve2(basePath, targetPath))
  IN Len(t) >= Len(b) /\ SubSeq(t, 1, Len(b)) = b

\* C13: validatePathWithinBase raises the path-escape error for every
\* candidate whose resolved path is neither the resolved base nor a
\* descendant of it by whole segments; base 'app' with candidate
\* '../app-secrets/x' is rejected.
C13_EscapeBySegmentsRejected ==
  fnOut.done =>
    (~WithinBySegments(fnIn.basePath, fnIn.targetPath) => ~fnOut.val.ok)

\* C14: validatePathWithinBase accepts ('app', 'vendor/bin/dep') and rejects
\* ('app', '../secrets') and ('app', '/etc/passwd').
C14_PathGuardExamples ==
  (fnOut.done /\ fnIn.basePath = APP) =>
    /\ fnIn.targetPath = VENDOR_BIN_DEP => fnOut.val.ok
    /\ fnIn.targetPath = UP_SECRETS => ~fnOut.val.ok
    /\ fnIn.targetPath = ETC_PASSWD => ~fnOut.val.ok

\* The check was applied to a candidate that climbs out of 'app' with '..'.
C14_Witness ==
  /\ fnOut.done
  /\ fnIn.basePath = APP
  /\ fnIn.targetPath = UP_SECRETS
  /\ ~fnOut.val.ok

\* C15: parseShellArgs returns ['--tag=v1.0', '--flag'] for
\* '--tag="v1.0" --flag', the empty sequence for the empty string and
\* ['a b', 'c'] for "'a b' c", and it never returns an empty token.
C15_ParseExamplesNoEmptyToken ==
  fnOut.done =>
    /\ \A i \in 1..Len(fnOut.val) : fnOut.val[i] # Empty
    /\ fnIn.input = TAG_FLAG =>
         fnOut.val = << <<"-", "-", "t", "a", "g", "=", "v", "1", ".", "0">>,
                        <<"-", "-", "f", "l", "a", "g">> >>
    /\ fnIn.input = Empty => fnOut.val = <<>>
    /\ fnIn.input = QUOTED_AB_C => fnOut.val = << <<"a", " ", "b">>, <<"c">> >>

\* A string with a quoted space was parsed into two tokens.
C15_Witness ==
  /\ fnOut.done
  /\ fnIn.input = QUOTED_AB_C
  /\ Len(fnOut.val) = 2
  /\ fnOut.val[1] = <<"a", " ", "b">>

\* The tokens joined by single spaces.
RECURSIVE JoinTokens(_)
JoinTokens(tokens) ==
  IF tokens = <<>> THEN Empty
  ELSE IF Len(tokens) = 1 THEN tokens[1]
  ELSE tokens[1] \o <<SP>> \o JoinTokens(Tail(tokens))

\* No token holds a space or a quote character.
PlainTokens(tokens) ==
  \A i \in 1..Len(tokens) :
    \A j \in 1..Len(tokens[i]) : tokens[i][j] \notin {SP, SQ, DQ}

\* C16: for every options string s such that no token of parseShellArgs(s)
\* holds a space or a quote character,
\* parseShellArgs(join(parseShellArgs(s), ' ')) = parseShellArgs(s).
C16_ParseIdempotentOnJoin ==
  (fnOut.done /\ PlainTokens(fnOut.val)) =>
    parseShellArgs(JoinTokens(fnOut.val)) = fnOut.val

\* A string with a quote in it was parsed into two plain tokens.
C16_Witness ==
  /\ fnOut.done
  /\ fnIn.input = <<"a", " ", "\"", "a">>
  /\ fnOut.val = << <<"a">>, <<"a">> >>
  /\ PlainTokens(fnOut.val)

\* C17: cleanupSSH never raises an error to its caller, whatever the file
\* system holds and whether configPath is given or not; called twice in
\* succession, or with nothing to remove, it completes normally each time.
C17_CleanupNeverRaises ==
  /\ ~cleanupRaised
  /\ pc \in {"cleanup", "done"}
  /\ pc = "done" => groupLog[Len(groupLog)] = "end:cleanupSSH"
  /\ Len(groupLog) = 2 * cleanupCalls

\* cleanupSSH has returned from its second call in a row, the second one made
\* with no key file, no known-hosts file and no socket left to remove.
C17_Witness ==
  /\ pc = "done"
  /\ cleanupCalls = 2
  /\ ~unlinkDenied
  /\ ~keyFile.exists
  /\ ~knownHostsFile.exists
  /\ sockets = {}
  /\ socketsRemoved = 0

\* `ssh-agent -s` ran and its output lacks SSH_AUTH_SOCK or SSH_AGENT_PID.
AnnouncementIncomplete ==
  announcement.started /\ ~(announcement.sock /\ announcement.pid)

\* C18: if the agent's announcement lacks the socket path or the process
\* identifier, setupSSH fails with the agent-parse error, neither
\* SSH_AUTH_SOCK nor SSH_AGENT_PID is exported and ssh-add is never invoked.
C18_IncompleteAnnouncementFails ==
  AnnouncementIncomplete =>
    /\ error = Err("AgentParse", 0)
    /\ sshConfigPath = NoPath
    /\ env.SSH_AUTH_SOCK # "run"
    /\ env.SSH_AGENT_PID # "run"
    /\ sshAddRuns = 0

\* A run ended after an announcement that held the socket path only.
C18_Witness ==
  /\ Terminated
  /\ announcement = [started |-> TRUE, sock |-> TRUE, pid |-> FALSE]
  /\ error.kind = "AgentParse"

\* setupSSH has written the session config and cleanupSSH has not run yet.
ConfigWritten == configFile.exists /\ cleanupCalls = 0

\* C19: the session SSH config has strict host-key checking enabled and
\* references the session known-hosts file if and only if the known-hosts
\* input is not empty; otherwise checking is disabled, the reference is the
\* null device, no known-hosts file is written and a warning is emitted.
C19_StrictIffKnownHosts ==
  ConfigWritten =>
    IF inputs.sshKnownHosts # Empty
    THEN /\ configFile.strict
         /\ configFile.knownHosts = "deployer_action_known_hosts"
         /\ knownHostsFile.exists
         /\ warnings = <<>>
    ELSE /\ ~configFile.strict
         /\ configFile.knownHosts = "/dev/null"
         /\ ~knownHostsFile.exists
         /\ warnings = <<"NoKnownHosts">>

\* A session config was written for a run without known hosts.
C19_Witness ==
  /\ ConfigWritten
  /\ inputs.sshKnownHosts = Empty
  /\ ~configFile.strict
  /\ warnings = <<"NoKnownHosts">>

\* setupSSH exported the process identifier of the agent it started.
AgentExported == env.SSH_AGENT_PID = "run"

\* C21: in every run in which setupSSH started an agent and exported its
\* process identifier, `ssh-agent -k` is issued exactly once before run()
\* terminates, on the success path and on every failure path.
C21_AgentKilledExactlyOnce ==
  /\ agentKills <= 1
  /\ (Terminated /\ AgentExported) => agentKills = 1

\* A run that failed after the agent was exported has terminated with one kill.
C21_Witness ==
  /\ Terminated
  /\ AgentExported
  /\ error.kind = "SshAdd"
  /\ agentKills = 1

\* C22: when runDeployment has returned or thrown, on any path (exit 0, exit
\* non-zero, launch rejected, timer fired), no timer it created is pending.
C22_NoTimerPendingAfterDeployment ==
  timer = "pending" => pc = "awaitDeploy"

\* runDeployment threw for a non-zero exit code with its timer cleared.
C22_Witness ==
  /\ pc = "catch"
  /\ error.kind = "DeployFailed"
  /\ timer = "cleared"

\* C23: when the timer wins the race the program does not terminate the
\* deployment subprocess, so a run can have terminated with status 'failed',
\* the key removed and the agent killed, while the subprocess still runs.
C23_TimeoutLeavesSubprocessAlone ==
  TimedOut => proc \in {"running", "exited"}

\* run() has terminated as failed, cleanup has removed the key and killed the
\* agent, and the deployment subprocess is still running.
C23_Witness ==
  /\ Terminated
  /\ TimedOut
  /\ statusSets = <<"failed">>
  /\ ~keyFile.exists
  /\ agent = "killed"
  /\ proc = "running"

\* How often a call appears in a log.
Count(log, call) == Cardinality({i \in DOMAIN log : log[i] = call})

\* runDeployment was entered and control has left it.
LeftRunDeployment ==
  Count(groupLog, "start:runDeployment") = 1 /\ pc # "awaitDeploy"

\* C24: every exit from runDeployment closes the log group opened at its
\* entry: on success, on a non-zero exit code, on timeout and on a launch
\* error the group-end call is made exactly once before control leaves.
C24_GroupClosedOnEveryExit ==
  /\ Count(groupLog, "end:runDeployment") <= 1
  /\ LeftRunDeployment => Count(groupLog, "end:runDeployment") = 1

\* The steps of cleanupSSH that apply: the config file is deleted when a path
\* was supplied, the agent is killed when its PID is in the environment.
StepsDue ==
  {"key", "knownHosts", "readdir"}
    \cup (IF sshConfigPath # NoPath THEN {"config"} ELSE {})
    \cup (IF env.SSH_AGENT_PID # "unset" THEN {"kill"} ELSE {})

\* C25: the five steps of cleanupSSH are each attempted whether or not an
\* earlier step failed, and a socket whose deletion fails does not stop the
\* deletion of the remaining sockets.
C25_EveryCleanupStepAttempted ==
  (pc = "done" /\ cleanupCalls >= 1) =>
    /\ cleanupTried = StepsDue
    /\ Cardinality(socketsTried) = socketsReported
    /\ socketsTried = {} \/ sockets \subseteq socketsTried
    /\ socketsRemoved = Cardinality(socketsTried \ sockets)

\* The key could not be deleted and the first of two sockets neither, and
\* cleanupSSH went on to delete the second socket and to kill the agent.
C25_Witness ==
  /\ pc = "done"
  /\ cleanupCalls = 1
  /\ keyFile.exists
  /\ socketsTried = {1, 2}
  /\ sockets = {1}
  /\ "kill" \in cleanupTried
  /\ agentKills = 1

\* C26: the number of control sockets cleanupSSH reports as removed equals
\* the number of sockets it deleted, also when some deletions fail.
C26_ReportedEqualsRemoved ==
  cleanupCalls >= 1 => socketsReported = socketsRemoved

\* The group calls of the main sequence, cleanupSSH's left out.
IsMainCall(call) == call \notin {"start:cleanupSSH", "end:cleanupSSH"}
MainLog == SelectSeq(groupLog, IsMainCall)

\* The group calls of a main sequence in which every step succeeded.
FullMainLog ==
  <<"start:setupSSH", "end:setupSSH", "start:verify", "end:verify",
    "start:runDeployment", "end:runDeployment">>

IsPrefix(s, t) == Len(s) <= Len(t) /\ s = SubSeq(t, 1, Len(s))

\* How far the main sequence had come when a step failed with `kind`.
ReachedAtFailure(kind) ==
  CASE kind = "InputRequired" -> {0}
    [] kind \in {"FsError", "AgentExec", "AgentParse", "SshAdd"} -> {1}
    [] kind \in {"PathEscape", "NotFound", "Chmod", "VerifyFailed"} -> {3}
    [] kind = "InvalidTimeout" -> {4}
    [] kind = "ExecError" -> {3, 5}
    [] kind = "Timeout" -> {5}
    [] kind = "DeployFailed" -> {6}
    [] OTHER -> {}

\* C27: setupSSH, verifyDeployerBinary, the timeout validation and
\* runDeployment run in that order, each only if all earlier ones succeeded
\* (validation succeeded when it did not raise), so the subprocess is
\* launched only after them; after the first failure no further step runs,
\* the run is marked failed exactly once with that failure's message, and
\* nothing that happens in cleanup replaces it.
C27_FailFastInOrder ==
  /\ IsPrefix(MainLog, FullMainLog)
  /\ Launched =>
       /\ IsPrefix(SubSeq(FullMainLog, 1, 5), MainLog)
       /\ sshConfigPath = ConfigPath
       /\ sshAddRuns = 1
       /\ PathWithinBase(inputs.workingDirectory, inputs.deployerBinary)
       /\ probeRuns = 1
       /\ ~(timeoutMs.t = "number" /\ timeoutMs.v < 0)
  /\ error # NoError =>
       /\ Len(MainLog) \in ReachedAtFailure(error.kind)
       /\ pc \in {"catch", "cleanup", "done"}
       /\ pc # "catch" => failedMsgs = <<error>> /\ statusSets = <<"failed">>
  /\ error = NoError => failedMsgs = <<>>

\* A run whose verification failed has terminated with that failure as its
\* only message, although a deletion failed in cleanup.
C27_Witness ==
  /\ Terminated
  /\ error.kind = "VerifyFailed"
  /\ failedMsgs = <<error>>
  /\ unlinkDenied
  /\ ~Launched

\* The chunks delivered on one stream, in their order.
OfStream(chunks, stream) ==
  LET OnIt(chunk) == chunk.stream = stream IN SelectSeq(chunks, OnIt)

\* C28: for every interleaving of stdout and stderr chunks, the buffer is the
\* concatenation of all delivered chunks in the order the listeners were
\* invoked, and each chunk is forwarded exactly once to the live stream of
\* its kind, in the step in which it is appended.
C28_BufferInArrivalOrder ==
  /\ deployerOutput = ChunkText(delivered)
  /\ stdoutLive = ChunkText(OfStream(delivered, "stdout"))
  /\ stderrLive = ChunkText(OfStream(delivered, "stderr"))

\* A stderr chunk was delivered before a stdout chunk.
C28_Witness ==
  /\ Len(delivered) = 2
  /\ delivered[1].stream = "stderr"
  /\ delivered[2].stream = "stdout"
  /\ deployerOutput = <<"!", "O", "K">>
  /\ stdoutLive = <<"O", "K">>
  /\ stderrLive = <<"!">>

Quotes == {SQ, DQ}

\* No character of s is in `chars`.
Without(s, chars) == \A k \in 1..Len(s) : s[k] \notin chars

\* The token a string is parsed into, if it is one.
OneToken(token) == IF token = Empty THEN <<>> ELSE <<token>>

\* C29: parseShellArgs splits at spaces outside quotes only: a space inside
\* an active quote does not end the token, the quote character that opens or
\* closes a quoted section is not emitted, and a quote of the other type
\* inside an active quote is emitted as it is and leaves the quoting state
\* alone. So plain text, a quoted section and plain text make one token.
C29_QuotedSectionIsOneToken ==
  fnOut.done =>
    \A i \in 1..Len(fnIn.input) : \A j \in (i + 1)..Len(fnIn.input) :
      LET s == fnIn.input
          pre == SubSeq(s, 1, i - 1)
          body == SubSeq(s, i + 1, j - 1)
          post == SubSeq(s, j + 1, Len(s))
      IN (/\ s[i] \in Quotes
          /\ s[j] = s[i]
          /\ Without(body, {s[i]})
          /\ Without(pre, Quotes \cup {SP})
          /\ Without(post, Quotes \cup {SP}))
         => fnOut.val = OneToken(pre \o body \o post)

\* A quoted section holding a space and a quote of the other type was parsed.
C29_Witness ==
  /\ fnOut.done
  /\ fnIn.input = <<"\"", " ", "'", "\"">>
  /\ fnOut.val = << <<" ", "'">> >>

\* The characters of s after its last space.
RECURSIVE LastWord(_)
LastWord(s) ==
  IF s = Empty \/ s[Len(s)] = SP THEN Empty
  ELSE Append(LastWord(SubSeq(s, 1, Len(s) - 1)), s[Len(s)])

\* C30: if the options string holds a quote that is never closed, everything
\* after the opening quote up to the end of the string, spaces included,
\* belongs to the last token returned, joined to the unquoted characters
\* right before the quote; no error is raised.
C30_OpenQuoteRunsToTheEnd ==
  fnOut.done =>
    \A i \in 1..Len(fnIn.input) :
      LET s == fnIn.input
          head == SubSeq(s, 1, i - 1)
          rest == SubSeq(s, i + 1, Len(s))
          last == LastWord(head) \o rest
      IN (/\ s[i] \in Quotes
          /\ Without(head, Quotes)
          /\ Without(rest, {s[i]})
          /\ last # Empty)
         => /\ fnOut.val # <<>>
            /\ fnOut.val[Len(fnOut.val)] = last
            /\ SubSeq(fnOut.val, 1, Len(fnOut.val) - 1)
                 = parseShellArgs(SubSeq(head, 1, Len(head) - Len(LastWord(head))))

\* An unquoted character, an opening quote never closed, and a trailing space
\* were parsed into one token.
C30_Witness ==
  /\ fnOut.done
  /\ fnIn.input = <<"a", "\"", "a", " ">>
  /\ fnOut.val = << <<"a", "a", " ">> >>

\* ---------------------------------------------------------------------- C31
\* <binary> --version has been run.
Probed == probeRuns >= 1

\* C31: the version probe is run only after the path was validated, the file
\* was found to exist, and it was executable or chmod 0755 succeeded.  A path
\* escape, a missing file and a failed chmod each raise their own error with
\* the binary never run, and for the first two no chmod is attempted.
C31_ProbeOnlyAfterChecks ==
  /\ Probed =>
       /\ PathWithinBase(inputs.workingDirectory, inputs.deployerBinary)
       /\ binaryStat.exists
       /\ binaryStat.executable \/ binaryStat.mode = "0755"
  /\ error.kind = "PathEscape" =>
       /\ ~PathWithinBase(inputs.workingDirectory, inputs.deployerBinary)
       /\ ~Probed /\ binChmods = 0 /\ binaryStat = NoStat
  /\ error.kind = "NotFound" =>
       ~binaryStat.exists /\ ~Probed /\ binChmods = 0
  /\ error.kind = "Chmod" =>
       /\ binaryStat.exists /\ ~binaryStat.executable
       /\ binaryStat.mode = "asFound" /\ binChmods = 1 /\ ~Probed

\* A binary that was not executable was made so and then probed.
C31_Witness ==
  Probed /\ ~binaryStat.executable /\ binaryStat.mode = "0755" /\ binChmods = 1

\* ---------------------------------------------------------------------- C32
\* The probe ran to its end with a non-zero exit code or without any output.
ProbeBad == probeResult.exitCode # 0 \/ probeResult.stdout = Empty

\* C32: once the version probe has run, verifyDeployerBinary fails with its
\* "failed to verify" error, carrying the exit code, exactly when the probe
\* exited non-zero or printed nothing; otherwise it returns, having logged
\* the trimmed output and closed its group.
C32_VerifyFailedIffProbeBad ==
  probeResult.launched =>
    /\ ProbeBad <=> error.kind = "VerifyFailed"
    /\ ProbeBad => error.n = probeResult.exitCode /\ successLog = Empty
    /\ ~ProbeBad =>
         /\ successLog = Trim(probeResult.stdout)
         /\ \E i \in 1..Len(groupLog) : groupLog[i] = "end:verify"

\* A probe that exits 0 without any output fails the run.
C32_Witness ==
  /\ probeResult.launched /\ probeResult.exitCode = 0
  /\ probeResult.stdout = Empty /\ error.kind = "VerifyFailed"

\* ---------------------------------------------------------------------- C33
\* C33: the configuration file paths that two overlapping runs on one host
\* compute are different.
C33_ConfigPathsDiffer ==
  (fnIn.f = "configPath" /\ fnOut.done) => fnOut.val[1] # fnOut.val[2]

\* ---------------------------------------------------------------------- C34
\* C34: once setupSSH has written the private key file, and until cleanup,
\* the file holds the key followed by one newline and has mode 0600, whatever
\* was at that path before.
C34_KeyFileOwnerOnly ==
  (sshConfigPath # NoPath /\ cleanupCalls = 0) =>
    keyFile = [exists |-> TRUE, content |-> Append(inputs.sshPrivateKey, NL),
               mode |-> "0600"]

\* ---------------------------------------------------------------------- C35
\* C35: cleanupSSH runs `ssh-agent -k` only when this run started an agent
\* and exported its process id; an SSH_AGENT_PID that was in the environment
\* before the run began leads to no kill.
C35_KillsOnlyOwnAgent ==
  agentKills >= 1 => (announcement.started /\ env.SSH_AGENT_PID = "run")

\* ---------------------------------------------------------------------- C36
\* C36: cleanupSSH leaves SSH_AUTH_SOCK, SSH_AGENT_PID and GIT_SSH_COMMAND as
\* they were; after a run that completed setup they still hold what setupSSH
\* exported, also when the config file and the agent are gone.
C36_CleanupLeavesEnvironment ==
  /\ [][pc = "cleanup" => env' = env]_vars
  /\ []((cleanupCalls >= 1 /\ sshConfigPath # NoPath) =>
          env = [GIT_SSH_COMMAND |-> ConfigPath, SSH_AUTH_SOCK |-> "run",
                 SSH_AGENT_PID |-> "run"])

\* After cleanup the config file is deleted and the agent killed, and the
\* variables still name them.
C36_Witness ==
  /\ pc = "done" /\ sshConfigPath # NoPath
  /\ ~configFile.exists /\ agent = "killed"
  /\ env.GIT_SSH_COMMAND = ConfigPath /\ env.SSH_AGENT_PID = "run"

\* ---------------------------------------------------------------------- C37
\* C37: for every binary path that validatePathWithinBase accepts, the file
\* verifyDeployerBinary looks at, path.join(workingDir, binaryPath), is the
\* file that was validated, path.resolve(workingDir, binaryPath).
C37_CheckedPathIsValidatedPath ==
  (fnIn.f = "validatePathWithinBase" /\ fnOut.done /\ fnOut.val.ok) =>
    PathJoinFile(fnIn.basePath, fnIn.targetPath) = fnOut.val.path

\* ---------------------------------------------------------------------- C38
\* C38: when run() has terminated, an agent this run started is alive only
\* if `ssh-agent -k` was issued for it and failed; with a kill that succeeds
\* whenever it is issued, no agent of the run is left.
C38_NoAgentLeftBehind ==
  (Terminated /\ agent = "alive") => agentKills >= 1

\* ---------------------------------------------------------------------- C40
\* The subprocess completed while runDeployment awaited it: only then does
\* runDeployment get as far as closing its log group.
ExitedBeforeTimer == \E i \in 1..Len(groupLog) : groupLog[i] = "end:runDeployment"

\* C40: when the deployment subprocess completes before the timer fires, the
\* timer is cancelled and stays so, the error is never the timeout error, and
\* the status, the output and the failure message of the finished run follow
\* from the exit code alone.
C40_InTimeExitIgnoresTimer ==
  /\ [][timer = "cleared" => timer' = "cleared"]_vars
  /\ [](ExitedBeforeTimer =>
          /\ timer \in {"none", "cleared"}
          /\ error.kind # "Timeout"
          /\ Terminated =>
               /\ statusSets = <<IF exitCode = 0 THEN "success" ELSE "failed">>
               /\ outputText.set <=> exitCode = 0
               /\ failedMsgs = IF exitCode = 0 THEN <<>>
                               ELSE <<Err("DeployFailed", exitCode)>>)

\* A run with a timeout of 7 minutes whose deployment exited 1 in time.
C40_Witness ==
  /\ Terminated /\ ExitedBeforeTimer /\ Truthy(timeoutMs)
  /\ timer = "cleared" /\ exitCode = 1 /\ statusSets = <<"failed">>

\* ---------------------------------------------------------------------- C39
\* runDeployment awaits a subprocess that is running, with no timer to end
\* the wait, and cleanup has not been reached.
AwaitsUnbounded ==
  /\ pc = "awaitDeploy" /\ proc = "running"
  /\ ~Truthy(timeoutMs) /\ timer = "none" /\ cleanupCalls = 0

\* C39: under fair scheduling run() terminates, unless the deployment
\* subprocess never exits and no valid positive timeout is configured; and as
\* long as a launched subprocess runs without a timeout, run() stays in
\* runDeployment and has not reached cleanup.
C39_TerminatesUnlessUnboundedWait ==
  /\ []((proc = "running" /\ ~Truthy(timeoutMs)) => AwaitsUnbounded)
  /\ (<>Terminated \/ <>[]AwaitsUnbounded)

\* No timeout is configured and the subprocess has written all it will and
\* keeps running: run() waits.
C39_Witness ==
  AwaitsUnbounded /\ inputs.timeout = Empty /\ delivered # <<>>

====
